---- MODULE Spec2Model ----
(***************************************************************************)
(* Model of src/login.rs of sure-petcare: the login Request, its           *)
(* RequestBuilder, the login Response, and their serde (JSON) forms.       *)
(*                                                                         *)
(* Strings are sequences of characters.  A Cow<'a, str> is a tagged        *)
(* pointer: Borrowed(addr) points at string data the caller owns for 'a,   *)
(* Owned(addr) points at a String buffer the Cow owns.  String data lives  *)
(* in `heap`, a function from live addresses to contents.                  *)
(***************************************************************************)
EXTENDS Integers, Sequences, FiniteSets, TLC

\* ------------------------------------------------------------------ bounds
\* Longest field string put through the serializer.
MaxLen == 2
\* Most members of a JSON object handed to a deserializer.
MaxEntries == 4

\* ----------------------------------------------------------------- strings
\* An ordinary character, the two characters JSON must escape in a string,
\* and the characters of the fixed keys and the syntax.
Quote == "\""
Backslash == "\\"
Chars == {"a", Quote, Backslash}

StrsUpTo(n) == UNION {[1..k -> Chars] : k \in 0..n}

RECURSIVE Concat(_)
Concat(ss) == IF ss = <<>> THEN <<>> ELSE Head(ss) \o Concat(Tail(ss))

\* The field names of the two structs, as the derive macros spell them.
K_email_address == <<"e","m","a","i","l","_","a","d","d","r","e","s","s">>
K_password == <<"p","a","s","s","w","o","r","d">>
K_device_id == <<"d","e","v","i","c","e","_","i","d">>
K_token == <<"t","o","k","e","n">>
Keys == {K_email_address, K_password, K_device_id, K_token}

\* ------------------------------------------------------- JSON, serializing
\* serde_json's string writer: the two escapes the alphabet can need.
EscapeChar_QuoteOnly(c) == IF c = Quote THEN <<Backslash, Quote>> ELSE <<c>>

EscapeChar(c) ==
    IF c = Quote THEN <<Backslash, Quote>>
    ELSE IF c = Backslash THEN <<Backslash, Backslash>>
    ELSE <<c>>

format_escaped_str(s) ==
    <<Quote>> \o Concat([i \in 1..Len(s) |-> EscapeChar(s[i])]) \o <<Quote>>

\* #[derive(Serialize)] on Request: a struct of three fields, written in
\* declaration order, every field always written.
SerializeRequest_Reordered(r) ==
    <<"{">> \o format_escaped_str(K_email_address) \o <<":">> \o format_escaped_str(r.email_address)
    \o <<",">> \o format_escaped_str(K_device_id) \o <<":">> \o format_escaped_str(r.device_id)
    \o <<",">> \o format_escaped_str(K_password) \o <<":">> \o format_escaped_str(r.password)
    \o <<"}">>

SerializeRequest(r) ==
    <<"{">> \o format_escaped_str(K_email_address) \o <<":">> \o format_escaped_str(r.email_address)
    \o <<",">> \o format_escaped_str(K_password) \o <<":">> \o format_escaped_str(r.password)
    \o <<",">> \o format_escaped_str(K_device_id) \o <<":">> \o format_escaped_str(r.device_id)
    \o <<"}">>

\* ------------------------------------------------------ JSON, deserializing
\* JSON values a member can hold: a string, or null (a non-string).
JStr(s) == [t |-> "string", s |-> s]
JNull == [t |-> "null", s |-> <<>>]
K_null == <<"n","u","l","l">>

Fail == [ok |-> FALSE]

\* serde_json's string reader from position i (after the opening quote):
\* the decoded string and the position after the closing quote.
RECURSIVE ScanStr(_, _, _)
ScanStr(t, i, acc) ==
    IF i > Len(t) THEN Fail
    ELSE IF t[i] = Quote THEN [ok |-> TRUE, s |-> acc, next |-> i + 1]
    ELSE IF t[i] = Backslash THEN
        IF i + 1 > Len(t) THEN Fail
        ELSE IF t[i + 1] \in {Quote, Backslash}
             THEN ScanStr(t, i + 2, Append(acc, t[i + 1]))
             ELSE Fail
    ELSE ScanStr(t, i + 1, Append(acc, t[i]))

ParseStr(t, i) ==
    IF i <= Len(t) /\ t[i] = Quote THEN ScanStr(t, i + 1, <<>>) ELSE Fail

ParseValue(t, i) ==
    IF i > Len(t) THEN Fail
    ELSE IF t[i] = Quote THEN
        LET r == ParseStr(t, i)
        IN IF r.ok THEN [ok |-> TRUE, v |-> JStr(r.s), next |-> r.next] ELSE Fail
    ELSE IF i + 3 <= Len(t) /\ SubSeq(t, i, i + 3) = K_null
         THEN [ok |-> TRUE, v |-> JNull, next |-> i + 4]
    ELSE Fail

\* The members of an object from position i (at a key), in text order.
RECURSIVE ParseMembers(_, _, _)
ParseMembers(t, i, acc) ==
    LET k == ParseStr(t, i)
    IN IF ~k.ok THEN Fail
       ELSE IF k.next > Len(t) \/ t[k.next] # ":" THEN Fail
       ELSE LET v == ParseValue(t, k.next + 1)
            IN IF ~v.ok THEN Fail
               ELSE IF v.next > Len(t) THEN Fail
               ELSE LET more == Append(acc, [key |-> k.s, val |-> v.v])
                    IN IF t[v.next] = "," THEN ParseMembers(t, v.next + 1, more)
                       ELSE IF t[v.next] = "}" /\ v.next = Len(t)
                            THEN [ok |-> TRUE, members |-> more]
                       ELSE Fail

ParseObject(t) ==
    IF Len(t) < 2 \/ t[1] # "{" THEN Fail
    ELSE IF t = <<"{", "}">> THEN [ok |-> TRUE, members |-> <<>>]
    ELSE ParseMembers(t, 2, <<>>)

\* A generic JSON writer, used for the payloads the transport delivers.
RenderValue(v) == IF v.t = "string" THEN format_escaped_str(v.s) ELSE K_null

RECURSIVE RenderMembers(_)
RenderMembers(ms) ==
    IF ms = <<>> THEN <<>>
    ELSE format_escaped_str(Head(ms).key) \o <<":">> \o RenderValue(Head(ms).val)
         \o (IF Len(ms) > 1 THEN <<",">> ELSE <<>>) \o RenderMembers(Tail(ms))

Render(ms) == <<"{">> \o RenderMembers(ms) \o <<"}">>

\* The visitor #[derive(Deserialize)] generates for a struct with the
\* fields `fields`, each a Cow<str>: a known key seen twice is a duplicate
\* field, a known key with a non-string value is an invalid type, an
\* unknown key is skipped, and a field never seen is a missing field.
None == [some |-> FALSE]
Some(s) == [some |-> TRUE, s |-> s]

RECURSIVE visit_map(_, _, _)
visit_map_Defaulting(ms, fields, slots) ==
    IF ms = <<>> THEN
        [ok |-> TRUE,
         fields |-> [f \in fields |-> IF slots[f].some THEN slots[f].s ELSE <<>>]]
    ELSE LET m == Head(ms)
         IN IF m.key \notin fields THEN visit_map(Tail(ms), fields, slots)
            ELSE IF slots[m.key].some THEN Fail
            ELSE IF m.val.t # "string" THEN Fail
            ELSE visit_map(Tail(ms), fields, [slots EXCEPT ![m.key] = Some(m.val.s)])

visit_map(ms, fields, slots) ==
    IF ms = <<>> THEN
        IF \E f \in fields : ~slots[f].some THEN Fail
        ELSE [ok |-> TRUE, fields |-> [f \in fields |-> slots[f].s]]
    ELSE LET m == Head(ms)
         IN IF m.key \notin fields THEN visit_map(Tail(ms), fields, slots)
            ELSE IF slots[m.key].some THEN Fail
            ELSE IF m.val.t # "string" THEN Fail
            ELSE visit_map(Tail(ms), fields, [slots EXCEPT ![m.key] = Some(m.val.s)])

RequestFields == {K_email_address, K_password, K_device_id}
ResponseFields == {K_token}

DeserializeStruct(t, fields) ==
    LET o == ParseObject(t)
    IN IF ~o.ok THEN Fail ELSE visit_map(o.members, fields, [f \in fields |-> None])

\* serde_json::from_str::<Request>: Ok with the three field values, or Err.
DeserializeRequest(t) ==
    LET r == DeserializeStruct(t, RequestFields)
    IN IF ~r.ok THEN Fail
       ELSE [ok |-> TRUE,
             value |-> [email_address |-> r.fields[K_email_address],
                        password |-> r.fields[K_password],
                        device_id |-> r.fields[K_device_id]]]

\* serde_json::from_str::<Response>: Ok with the token, or Err.
DeserializeResponse_OrDefault(t) ==
    LET r == DeserializeStruct(t, ResponseFields)
    IN IF ~r.ok THEN [ok |-> TRUE, value |-> [token |-> <<>>]]
       ELSE [ok |-> TRUE, value |-> [token |-> r.fields[K_token]]]

DeserializeResponse(t) ==
    LET r == DeserializeStruct(t, ResponseFields)
    IN IF ~r.ok THEN Fail ELSE [ok |-> TRUE, value |-> [token |-> r.fields[K_token]]]

\* --------------------------------------------------------------- Cow, heap
\* Cow<'a, str>: Borrowed(&'a str) or Owned(String), by the address of the
\* string data.
Borrowed(a) == [tag |-> "Borrowed", addr |-> a]
Owned(a) == [tag |-> "Owned", addr |-> a]

\* Addresses are names.  String data the caller owns for 'a has the
\* addresses LitAddr(1), LitAddr(2), ...; the String made for a place (a
\* field of builder n, of the n-th Request built, the token of Response n)
\* is named after the place.  The assignment that puts a String into a place
\* drops what the place held, so the name is that of one live String only.
LitAddr(n) == [kind |-> "lit", n |-> n, f |-> ""]
BuilderAddr(n, f) == [kind |-> "builder", n |-> n, f |-> f]
RequestAddr(n, f) == [kind |-> "request", n |-> n, f |-> f]
ResponseAddr(n) == [kind |-> "response", n |-> n, f |-> "token"]

\* A heap with string s placed at address a.
Alloc(h, a, s) == [x \in DOMAIN h \cup {a} |-> IF x = a THEN s ELSE h[x]]
\* A heap with the buffer at address a freed.
Free(h, a) == [x \in DOMAIN h \ {a} |-> h[x]]
\* Dropping a Cow frees the String of an Owned one and nothing of a
\* Borrowed one.
DropCow(h, c) == IF c.tag = "Owned" THEN Free(h, c.addr) ELSE h
\* A String of contents s at address a: the Cow::Owned of it and the heap
\* with it.
NewString(h, a, s) == [cow |-> Owned(a), heap |-> Alloc(h, a, s)]

\* ------------------------------------------------------------------- state
VARIABLES
    input,       \* what this run starts from: a Request to send, or a payload
    wire,        \* the JSON text produced or delivered, once there is one
    reqResult,   \* the outcome of from_str::<Request> on the wire
    respResult,  \* the outcome of from_str::<Response> on the wire
    responses,   \* the Response values: token, and whether it was moved out of
    tokens,      \* what access_token returned: the Cow and the Response it left
    heap,        \* string data: address -> contents
    builders,    \* the RequestBuilders created, by identity (1, 2, ...)
    built,       \* the Requests build() returned, in order
    ret,         \* the builder the last call returned, or a reference to
    last,        \* per builder and field: the argument of its latest setter call
    clean,       \* per builder: built, and no setter called since
    expects,     \* per built Request: its builder, and `last` of it then
    pc,          \* the position in the two builder tests
    targs        \* the three arguments the two builder tests use

serdeVars == <<input, wire, reqResult, respResult, responses, tokens>>
codeVars == <<builders, built, ret>>
ghostVars == <<last, clean, expects>>
testVars == <<pc, targs>>
builderVars == <<codeVars, ghostVars, testVars>>
vars == <<serdeVars, heap, builderVars>>

NotRun == [done |-> FALSE]
Ran(r) == [done |-> TRUE, res |-> r]

\* The Requests the serializer is given and the payloads the transport
\* delivers.
Requests == [email_address : StrsUpTo(MaxLen), password : StrsUpTo(MaxLen),
             device_id : StrsUpTo(MaxLen)]
JVals == {JStr(<<"a">>), JNull}
Members == [key : Keys, val : JVals]
Payloads == UNION {[1..k -> Members] : k \in 0..MaxEntries}

Item(r) == [kind |-> "item", r |-> r]
Payload(ms) == [kind |-> "payload", ms |-> ms]

NoBuilders ==
    /\ builders = <<>>
    /\ built = <<>>
    /\ ret = 0
    /\ last = <<>>
    /\ clean = <<>>
    /\ expects = <<>>

InitSerde ==
    /\ input \in {Item(r) : r \in Requests} \cup {Payload(ms) : ms \in Payloads}
    /\ wire = None
    /\ reqResult = NotRun
    /\ respResult = NotRun
    /\ responses = <<>>
    /\ tokens = <<>>
    /\ heap = <<>>
    /\ NoBuilders
    /\ pc = "none"
    /\ targs = <<>>

\* serde_json::to_string(&item) of the tests and the doc examples.
to_string_Request ==
    /\ input.kind = "item"
    /\ ~wire.some
    /\ wire' = Some(SerializeRequest(input.r))
    /\ UNCHANGED <<input, reqResult, respResult, responses, tokens, heap, builderVars>>

\* The transport hands over a JSON object.
Deliver ==
    /\ input.kind = "payload"
    /\ ~wire.some
    /\ wire' = Some(Render(input.ms))
    /\ UNCHANGED <<input, reqResult, respResult, responses, tokens, heap, builderVars>>

from_str_Request ==
    /\ wire.some
    /\ ~reqResult.done
    /\ reqResult' = Ran(DeserializeRequest(wire.s))
    /\ UNCHANGED <<input, wire, respResult, responses, tokens, heap, builderVars>>

\* from_str::<Response>: on Ok a Response exists, its token a Cow::Owned
\* of a String (Cow<str> without #[serde(borrow)] deserializes owned).
from_str_Response ==
    /\ wire.some
    /\ ~respResult.done
    /\ LET r == DeserializeResponse(wire.s)
       IN /\ respResult' = Ran(r)
          /\ IF r.ok
             THEN LET t == NewString(heap, ResponseAddr(1), r.value.token)
                  IN /\ responses' = <<[live |-> TRUE, token |-> t.cow]>>
                     /\ heap' = t.heap
             ELSE UNCHANGED <<responses, heap>>
    /\ UNCHANGED <<input, wire, reqResult, tokens, builderVars>>

\* Most Response values in one execution.
MaxResponses == 2

\* Response derives Clone: the clone of a live Response is another Response,
\* its token a copy in a String of its own.
clone_Response(i) ==
    /\ responses[i].live
    /\ Len(responses) < MaxResponses
    /\ LET t == NewString(heap, ResponseAddr(Len(responses) + 1), heap[responses[i].token.addr])
       IN /\ responses' = Append(responses, [live |-> TRUE, token |-> t.cow])
          /\ heap' = t.heap
    /\ UNCHANGED <<input, wire, reqResult, respResult, tokens, builderVars>>

\* An accessor that takes &self and leaves the Response usable.
access_token_BySharedRef(i) ==
    /\ responses[i].live
    /\ tokens' = Append(tokens, [from |-> i, cow |-> responses[i].token])
    /\ UNCHANGED <<input, wire, reqResult, respResult, responses, heap, builderVars>>

\* access_token(self): takes the Response by value, so it can only be called
\* on a Response not yet moved out of, and moves it; the token Cow goes to
\* the caller.
access_token(i) ==
    /\ responses[i].live
    /\ responses' = [responses EXCEPT ![i].live = FALSE]
    /\ tokens' = Append(tokens, [from |-> i, cow |-> responses[i].token])
    /\ UNCHANGED <<input, wire, reqResult, respResult, heap, builderVars>>

NextSerde ==
    \/ to_string_Request
    \/ Deliver
    \/ from_str_Request
    \/ from_str_Response
    \/ \E i \in DOMAIN responses : clone_Response(i)
    \/ \E i \in DOMAIN responses : access_token(i)

SpecSerde == InitSerde /\ [][NextSerde]_vars

\* ---------------------------------------------------------- RequestBuilder
\* Most Requests built in one execution.
MaxBuilt == 2

\* The string data the callers own for 'a (literals, say): LitData[n] is
\* the string at LitAddr(n); and the values of the Strings they pass.
LitData == << <<"a">> >>
StringVals == {<<Quote>>}
LitHeap == [a \in {LitAddr(n) : n \in DOMAIN LitData} |-> LitData[a.n]]

\* A setter's argument, T: Into<Cow<'a, str>>: a &'a str, or a String.
StrArg(n) == [kind |-> "str", addr |-> LitAddr(n), s |-> LitData[n]]
StringArg(v) == [kind |-> "String", addr |-> LitAddr(0), s |-> v]
Args == {StrArg(n) : n \in DOMAIN LitData} \cup {StringArg(v) : v \in StringVals}

Fields == {"email_address", "password", "device_id"}

\* The strings a builder or Request (a record of three Cows) holds in heap h.
Values(h, r) == [f \in Fields |-> h[r[f].addr]]

\* RequestBuilder::default(), for builder n: three Cow::Owned of an empty
\* String each.
DefaultBuilder(h, n) ==
    LET e == NewString(h, BuilderAddr(n, "email_address"), <<>>)
        p == NewString(e.heap, BuilderAddr(n, "password"), <<>>)
        d == NewString(p.heap, BuilderAddr(n, "device_id"), <<>>)
    IN [builder |-> [email_address |-> e.cow, password |-> p.cow, device_id |-> d.cow],
        heap |-> d.heap]

\* RequestBuilder::new().
new ==
    /\ builders' = Append(builders, DefaultBuilder(heap, Len(builders) + 1).builder)
    /\ heap' = DefaultBuilder(heap, Len(builders) + 1).heap
    /\ ret' = Len(builders) + 1
    /\ UNCHANGED built

\* arg.into(), for the place at address a: a &'a str becomes Cow::Borrowed
\* of it, a String is moved into a Cow::Owned.
IntoCow(h, a, arg) ==
    IF arg.kind = "String" THEN NewString(h, a, arg.s)
    ELSE [cow |-> Borrowed(arg.addr), heap |-> h]

\* self.<f> = arg.into(); self: the assignment drops the Cow the field
\* held and stores the converted argument; the &mut Self returned is self.
Assign(b, f, arg) ==
    LET c == IntoCow(DropCow(heap, builders[b][f]), BuilderAddr(b, f), arg)
    IN /\ builders' = [builders EXCEPT ![b][f] = c.cow]
       /\ heap' = c.heap
       /\ ret' = b
       /\ UNCHANGED built

\* A setter that writes its argument to the password as well.
with_email_address_AlsoPassword(b, arg) ==
    LET c == IntoCow(DropCow(heap, builders[b].email_address),
                     BuilderAddr(b, "email_address"), arg)
        c2 == IntoCow(DropCow(c.heap, builders[b].password),
                      BuilderAddr(b, "password"), arg)
    IN /\ builders' = [builders EXCEPT ![b].email_address = c.cow, ![b].password = c2.cow]
       /\ heap' = c2.heap
       /\ ret' = b
       /\ UNCHANGED built

with_email_address(b, arg) == Assign(b, "email_address", arg)

\* A setter that returns a reference to a builder of its own making.
with_password_ReturnsNew(b, arg) ==
    LET c == IntoCow(DropCow(heap, builders[b].password), BuilderAddr(b, "password"), arg)
        n == DefaultBuilder(c.heap, Len(builders) + 1)
    IN /\ builders' = Append([builders EXCEPT ![b].password = c.cow], n.builder)
       /\ heap' = n.heap
       /\ ret' = Len(builders) + 1
       /\ UNCHANGED built

with_password(b, arg) == Assign(b, "password", arg)

with_device_id(b, arg) == Assign(b, "device_id", arg)

\* A clone that copies the pointer of an Owned too.
CloneCow_Shallow(h, a, c) == [cow |-> c, heap |-> h]

\* Cow::clone, which `to_owned()` on a Cow is, into the place at address a:
\* a Borrowed stays the same borrow, an Owned is copied into a String of
\* its own.
CloneCow(h, a, c) ==
    IF c.tag = "Borrowed" THEN [cow |-> c, heap |-> h]
    ELSE NewString(h, a, h[c.addr])

\* A build that clears the builder.
build_Resetting(b) ==
    LET k == Len(built) + 1
        e == CloneCow(heap, RequestAddr(k, "email_address"), builders[b].email_address)
        p == CloneCow(e.heap, RequestAddr(k, "password"), builders[b].password)
        d == CloneCow(p.heap, RequestAddr(k, "device_id"), builders[b].device_id)
        h == DropCow(DropCow(DropCow(d.heap, builders[b].email_address),
                             builders[b].password), builders[b].device_id)
    IN /\ built' = Append(built, [email_address |-> e.cow, password |-> p.cow,
                                  device_id |-> d.cow])
       /\ builders' = [builders EXCEPT ![b] = DefaultBuilder(h, b).builder]
       /\ heap' = DefaultBuilder(h, b).heap
       /\ UNCHANGED ret

\* A build that exchanges password and device_id.
build_Swapped(b) ==
    LET k == Len(built) + 1
        e == CloneCow(heap, RequestAddr(k, "email_address"), builders[b].email_address)
        p == CloneCow(e.heap, RequestAddr(k, "device_id"), builders[b].password)
        d == CloneCow(p.heap, RequestAddr(k, "password"), builders[b].device_id)
    IN /\ built' = Append(built, [email_address |-> e.cow, password |-> d.cow,
                                  device_id |-> p.cow])
       /\ heap' = d.heap
       /\ UNCHANGED <<builders, ret>>

\* build(&self): a Request of the clones of the three fields.
build(b) ==
    LET k == Len(built) + 1
        e == CloneCow(heap, RequestAddr(k, "email_address"), builders[b].email_address)
        p == CloneCow(e.heap, RequestAddr(k, "password"), builders[b].password)
        d == CloneCow(p.heap, RequestAddr(k, "device_id"), builders[b].device_id)
    IN /\ built' = Append(built, [email_address |-> e.cow, password |-> p.cow,
                                  device_id |-> d.cow])
       /\ heap' = d.heap
       /\ UNCHANGED <<builders, ret>>

\* --- the callers: any sequence of setter and build calls on one builder
NeverSet == [f \in Fields |-> None]

\* What a setter call on field f of builder b with `arg` is recorded as.
Called(b, f, arg) ==
    /\ last' = [last EXCEPT ![b][f] = Some(arg.s)]
    /\ clean' = [clean EXCEPT ![b] = FALSE]
    /\ UNCHANGED expects

\* What a build call on builder b is recorded as.
Built(b) ==
    /\ Len(built) < MaxBuilt
    /\ expects' = Append(expects, [from |-> b, last |-> last[b]])
    /\ clean' = [clean EXCEPT ![b] = TRUE]
    /\ UNCHANGED last

SerdeIdle ==
    /\ input = None
    /\ wire = None
    /\ reqResult = NotRun
    /\ respResult = NotRun
    /\ responses = <<>>
    /\ tokens = <<>>

InitBuilder ==
    /\ SerdeIdle
    /\ builders = <<DefaultBuilder(LitHeap, 1).builder>>
    /\ heap = DefaultBuilder(LitHeap, 1).heap
    /\ built = <<>>
    /\ ret = 1
    /\ last = <<NeverSet>>
    /\ clean = <<FALSE>>
    /\ expects = <<>>
    /\ pc = "none"
    /\ targs = <<>>

Call_with_email_address(b, arg) ==
    /\ with_email_address(b, arg)
    /\ Called(b, "email_address", arg)
    /\ UNCHANGED <<serdeVars, testVars>>

Call_with_password(b, arg) ==
    /\ with_password(b, arg)
    /\ Called(b, "password", arg)
    /\ UNCHANGED <<serdeVars, testVars>>

Call_with_device_id(b, arg) ==
    /\ with_device_id(b, arg)
    /\ Called(b, "device_id", arg)
    /\ UNCHANGED <<serdeVars, testVars>>

Call_build(b) ==
    /\ build(b)
    /\ Built(b)
    /\ UNCHANGED <<serdeVars, testVars>>

NextBuilder ==
    \/ \E b \in DOMAIN builders, arg \in Args : Call_with_email_address(b, arg)
    \/ \E b \in DOMAIN builders, arg \in Args : Call_with_password(b, arg)
    \/ \E b \in DOMAIN builders, arg \in Args : Call_with_device_id(b, arg)
    \/ \E b \in DOMAIN builders : Call_build(b)

SpecBuilder == InitBuilder /\ [][NextBuilder]_vars

\* --- the callers: the tests should_build_chain and should_build_parts
\* The arguments the tests may pass: those above, and two more Strings.
TestArgs == Args \cup {StringArg(<<>>), StringArg(<<"a", Backslash>>)}

At_(at, named) == [at |-> at, named |-> named]

InitChain ==
    /\ SerdeIdle
    /\ heap = LitHeap
    /\ NoBuilders
    /\ pc = At_("chain_new", 0)
    /\ targs \in [a : TestArgs, b : TestArgs, c : TestArgs]

Frame == UNCHANGED <<serdeVars, ghostVars, targs>>

\* should_build_chain: RequestBuilder::new().with_email_address(a)
\* .with_password(b).with_device_id(c).build(): every call is made on
\* what the call before it returned.
chain_new ==
    pc.at = "chain_new" /\ new /\ pc' = At_("chain_email", 0) /\ Frame
chain_email ==
    /\ pc.at = "chain_email"
    /\ with_email_address(ret, targs.a)
    /\ pc' = At_("chain_password", 0)
    /\ Frame
chain_password ==
    /\ pc.at = "chain_password"
    /\ with_password(ret, targs.b)
    /\ pc' = At_("chain_device", 0)
    /\ Frame
chain_device ==
    /\ pc.at = "chain_device"
    /\ with_device_id(ret, targs.c)
    /\ pc' = At_("chain_build", 0)
    /\ Frame
chain_build ==
    pc.at = "chain_build" /\ build(ret) /\ pc' = At_("parts_new", 0) /\ Frame

\* should_build_parts: let mut builder = RequestBuilder::new(); then the
\* three setters and build, each called on `builder`.
parts_new ==
    pc.at = "parts_new" /\ new /\ pc' = At_("parts_email", ret') /\ Frame
parts_email ==
    /\ pc.at = "parts_email"
    /\ with_email_address(pc.named, targs.a)
    /\ pc' = At_("parts_password", pc.named)
    /\ Frame
parts_password ==
    /\ pc.at = "parts_password"
    /\ with_password(pc.named, targs.b)
    /\ pc' = At_("parts_device", pc.named)
    /\ Frame
parts_device ==
    /\ pc.at = "parts_device"
    /\ with_device_id(pc.named, targs.c)
    /\ pc' = At_("parts_build", pc.named)
    /\ Frame
parts_build ==
    pc.at = "parts_build" /\ build(pc.named) /\ pc' = At_("done", pc.named) /\ Frame

NextChain ==
    \/ chain_new
    \/ chain_email
    \/ chain_password
    \/ chain_device
    \/ chain_build
    \/ parts_new
    \/ parts_email
    \/ parts_password
    \/ parts_device
    \/ parts_build

SpecChain == InitChain /\ [][NextChain]_vars

\* ------------------------------------------------------- claims, SpecSerde
\* The members of payload ms with key k, and whether k occurs exactly once
\* in ms with a string value.
At(ms, k) == {i \in DOMAIN ms : ms[i].key = k}
OnceAsString(ms, k) ==
    /\ Cardinality(At(ms, k)) = 1
    /\ \A i \in At(ms, k) : ms[i].val.t = "string"
MissingOrNotString(ms, k) ==
    \/ At(ms, k) = {}
    \/ \E i \in At(ms, k) : ms[i].val.t # "string"
ValueOf(ms, k) == ms[CHOOSE i \in At(ms, k) : TRUE].val.s
Plain(s) == \A i \in 1..Len(s) : s[i] \notin {Quote, Backslash}

\* C4: the serialized Request is a JSON object of exactly the three members
\* email_address, password, device_id, in that order, each holding the
\* field's string (empty strings included); and for field values that need
\* no JSON escaping the text is exactly
\* {"email_address":"<e>","password":"<p>","device_id":"<d>"}.
C4_SerializedShape ==
    (input.kind = "item" /\ wire.some) =>
        /\ ParseObject(wire.s) =
              [ok |-> TRUE,
               members |-> << [key |-> K_email_address, val |-> JStr(input.r.email_address)],
                              [key |-> K_password, val |-> JStr(input.r.password)],
                              [key |-> K_device_id, val |-> JStr(input.r.device_id)] >>]
        /\ (Plain(input.r.email_address) /\ Plain(input.r.password) /\ Plain(input.r.device_id)) =>
              wire.s = <<"{", Quote>> \o K_email_address \o <<Quote, ":", Quote>>
                       \o input.r.email_address \o <<Quote, ",", Quote>> \o K_password
                       \o <<Quote, ":", Quote>> \o input.r.password \o <<Quote, ",", Quote>>
                       \o K_device_id \o <<Quote, ":", Quote>> \o input.r.device_id
                       \o <<Quote, "}">>

\* A Request with an empty and two different non-empty plain fields has been
\* serialized.
C4_Witness ==
    /\ input.kind = "item"
    /\ wire.some
    /\ input.r.email_address = <<>>
    /\ input.r.password = <<"a">>
    /\ input.r.device_id = <<"a", "a">>

\* C6: deserializing the serialization of a Request succeeds and gives back
\* the three field values.
C6_RoundTrip ==
    (input.kind = "item" /\ reqResult.done) =>
        reqResult.res = [ok |-> TRUE, value |-> input.r]

\* A Request whose fields hold a backslash and a quote went through the
\* round trip.
C6_Witness ==
    /\ input.kind = "item"
    /\ reqResult.done
    /\ input.r.email_address = <<Backslash, Quote>>
    /\ input.r.password = <<Quote>>
    /\ input.r.device_id = <<>>

\* C7: deserializing a Request from a JSON object fails whenever one of the
\* three keys is missing or holds a non-string; it succeeds, with the three
\* values, when each of the three occurs once with a string value, whatever
\* unknown keys the object also holds.
C7_RequestDeserialize ==
    (input.kind = "payload" /\ reqResult.done) =>
        /\ (\E k \in RequestFields : MissingOrNotString(input.ms, k)) => ~reqResult.res.ok
        /\ (\A k \in RequestFields : OnceAsString(input.ms, k)) =>
              reqResult.res = [ok |-> TRUE,
                               value |-> [email_address |-> ValueOf(input.ms, K_email_address),
                                          password |-> ValueOf(input.ms, K_password),
                                          device_id |-> ValueOf(input.ms, K_device_id)]]

\* {"email_address":"a","password":"a"}, which lacks device_id, was
\* deserialized.
C7_Witness ==
    /\ input = Payload(<< [key |-> K_email_address, val |-> JStr(<<"a">>)],
                          [key |-> K_password, val |-> JStr(<<"a">>)] >>)
    /\ reqResult.done

\* C8: deserializing a Response from an object whose token key holds a
\* string succeeds, other keys ignored, and access_token then returns that
\* string; from an object with no token key or a non-string token it fails
\* and no Response exists.
C8_ResponseDeserialize ==
    (input.kind = "payload" /\ respResult.done) =>
        /\ MissingOrNotString(input.ms, K_token) =>
              (~respResult.res.ok /\ responses = <<>> /\ tokens = <<>>)
        /\ OnceAsString(input.ms, K_token) =>
              /\ respResult.res = [ok |-> TRUE, value |-> [token |-> ValueOf(input.ms, K_token)]]
              /\ responses # <<>>
              /\ \A k \in DOMAIN tokens :
                    heap[tokens[k].cow.addr] = ValueOf(input.ms, K_token)

\* A token was extracted from the Response deserialized from an object that
\* holds other keys besides token.
C8_Witness ==
    /\ input.kind = "payload"
    /\ Len(input.ms) = 3
    /\ OnceAsString(input.ms, K_token)
    /\ \E k \in DOMAIN tokens : tokens[k].from = 1

\* C9: access_token is performed at most once on a Response, the Response is
\* moved out of from then on, and the token returned is an owned string that
\* is still there and is shared with no live Response.
C9_OneShot ==
    /\ \A j, k \in DOMAIN tokens : tokens[j].from = tokens[k].from => j = k
    /\ \A k \in DOMAIN tokens :
          /\ ~responses[tokens[k].from].live
          /\ tokens[k].cow.tag = "Owned"
          /\ tokens[k].cow.addr \in DOMAIN heap
          /\ \A i \in DOMAIN responses :
                responses[i].live => responses[i].token.addr # tokens[k].cow.addr

\* The token was taken from a Response while a clone of it is still live.
C9_Witness ==
    /\ Len(tokens) = 1
    /\ Len(responses) = 2
    /\ ~responses[tokens[1].from].live
    /\ \E i \in DOMAIN responses : responses[i].live

\* ----------------------------------------- claims, SpecBuilder, SpecChain
\* The value a field is to have given its latest setter call, if any.
Expected(l) == [f \in Fields |-> IF l[f].some THEN l[f].s ELSE <<>>]

\* The places that hold a Cow, and the Cow each holds.
Places == {<<"builder", b, f>> : b \in DOMAIN builders, f \in Fields}
          \cup {<<"request", k, f>> : k \in DOMAIN built, f \in Fields}
CowAt(p) == IF p[1] = "builder" THEN builders[p[2]][p[3]] ELSE built[p[2]][p[3]]

\* C1: every Request built holds, field by field, the argument of the latest
\* setter call made for that field before the build, and the empty string
\* for a field whose setter was never called.
C1_LastWriteWins ==
    \A k \in DOMAIN built : Values(heap, built[k]) = Expected(expects[k].last)

\* A Request was built with email_address never set and the other two set.
C1_Witness ==
    \E k \in DOMAIN built :
        /\ ~expects[k].last.email_address.some
        /\ expects[k].last.password = Some(<<"a">>)
        /\ expects[k].last.device_id = Some(<<Quote>>)

\* C2: a build() step leaves the builder as it was, pointers and strings;
\* a build() with no setter call since the build before it returns a Request
\* equal field by field to the one before; and after a build() every setter
\* can be called, and build() again.
C2_BuildStep ==
    Len(built') > Len(built) =>
        /\ builders' = builders
        /\ \A b \in DOMAIN builders :
              Values(heap', builders'[b]) = Values(heap, builders[b])
        /\ \A b \in DOMAIN builders :
              (clean[b] /\ built # <<>>) =>
                  Values(heap', built'[Len(built')]) = Values(heap, built[Len(built)])

C2_StillUsable ==
    built # <<>> =>
        /\ \A arg \in Args :
              /\ ENABLED Call_with_email_address(1, arg)
              /\ ENABLED Call_with_password(1, arg)
              /\ ENABLED Call_with_device_id(1, arg)
        /\ Len(built) < MaxBuilt => ENABLED Call_build(1)

\* C2: build() leaves the builder unchanged and usable (the step property
\* and the state property above, together).
C2_BuildLeavesBuilder == [][C2_BuildStep]_vars /\ []C2_StillUsable

\* The builder, its password set, was built twice with no setter call in
\* between.
C2_Witness ==
    /\ Len(built) = 2
    /\ clean[1]
    /\ expects[1].last = expects[2].last
    /\ Values(heap, builders[1]).password = <<Quote>>

C3_Unchanged ==
    \A k \in DOMAIN built :
        /\ built'[k] = built[k]
        /\ Values(heap', built'[k]) = Values(heap, built[k])

C3_OwnedUnshared ==
    /\ \A p \in Places : CowAt(p).addr \in DOMAIN heap
    /\ \A p, q \in Places :
          (p # q /\ CowAt(p).addr = CowAt(q).addr) =>
              /\ CowAt(p).tag = "Borrowed"
              /\ CowAt(q).tag = "Borrowed"
              /\ CowAt(p).addr \in DOMAIN LitHeap
    /\ \A a \in DOMAIN LitHeap : heap[a] = LitHeap[a]

C5_ChainedEqualsStepwise ==
    /\ pc.at \in {"chain_email", "chain_password", "chain_device", "chain_build"} => ret = 1
    /\ pc.at \in {"parts_password", "parts_device", "parts_build"} => ret = pc.named
    /\ pc.at = "done" =>
          /\ Len(built) = 2
          /\ Values(heap, built[1]) = Values(heap, built[2])
          /\ Values(heap, built[1]) =
                [f \in Fields |-> CASE f = "email_address" -> targs.a.s
                                    [] f = "password" -> targs.b.s
                                    [] f = "device_id" -> targs.c.s]
          /\ SerializeRequest(Values(heap, built[1])) = SerializeRequest(Values(heap, built[2]))

\* Both tests ran to the end, with a borrowed string and two Strings.
C5_Witness ==
    /\ pc.at = "done"
    /\ targs.a = StrArg(1)
    /\ targs.b = StringArg(<<Quote>>)
    /\ targs.c = StringArg(<<"a", Backslash>>)

\* C10: a with_email_address step leaves password and device_id of the
\* builder as they were, and so for the other two setters; and the
\* builder's fields are at any time the latest argument of each field's own
\* setter, whatever the order of the calls to different setters.
SameField(b, f) ==
    /\ builders'[b][f] = builders[b][f]
    /\ heap'[builders'[b][f].addr] = heap[builders[b][f].addr]

C10_Frame ==
    \A b \in DOMAIN builders, arg \in Args :
        /\ with_email_address(b, arg) => (SameField(b, "password") /\ SameField(b, "device_id"))
        /\ with_password(b, arg) => (SameField(b, "email_address") /\ SameField(b, "device_id"))
        /\ with_device_id(b, arg) => (SameField(b, "email_address") /\ SameField(b, "password"))

C10_OrderFree ==
    \A b \in DOMAIN builders : Values(heap, builders[b]) = Expected(last[b])

\* C10: each setter changes its own field only, so calls to different
\* setters commute (the two properties above).
C10_SettersIndependent == [][C10_Frame]_vars /\ []C10_OrderFree

\* All three setters were called, with different values.
C10_Witness ==
    /\ last[1].email_address = Some(<<Quote>>)
    /\ last[1].password = Some(<<"a">>)
    /\ last[1].device_id = Some(<<Quote>>)
    /\ built # <<>>

====
